---- MODULE Spec2Model ----
(***************************************************************************)
(* A model of the Battleship server (src/server/app.py): the persisted     *)
(* game, the fleet placement, and the handlers start_game, join_game,      *)
(* get_state and make_move.                                                *)
(*                                                                         *)
(* Python strings are modelled as sequences of one-character strings, so   *)
(* that coordinate formatting, upper-casing and integer parsing are        *)
(* computed the way the code computes them.  A board cell (a one-character *)
(* Python string) is a one-character TLA+ string; where the code compares  *)
(* it with a text, the model compares the one-element sequence.            *)
(*                                                                         *)
(* BOARD_SIZE and SHIP_SIZES are module-level constants of app.py (12 and  *)
(* the five-ship catalogue).  TLC cannot enumerate 12x12 fleets, so they   *)
(* are variables that Init fixes and no action changes: each               *)
(* specification runs the same code on a scaled engine (a smaller board    *)
(* and a suffix of the catalogue, in catalogue order).                     *)
(***************************************************************************)
EXTENDS Integers, Sequences, FiniteSets, TLC

VARIABLES
    BOARD_SIZE,   \* app.py:30, fixed by Init
    SHIP_SIZES,   \* app.py:33, sequence of <<letter, size>> in dict order
    games,        \* GAMES_ROOT: game id -> the persisted JSON of the game
    resp,         \* the HTTP response of the last handled request
    caller,       \* the token that request presented (Null: none)
    conv,         \* a coordinate under conversion (text <-> row, col)
    flight,       \* the requests in flight: worker -> the handler's locals
    TOKEN_FILE,   \* battleship.py:28, the client's $HOME/.battleship/current
    cli           \* the last command of the client and what it did

vars ==
    <<BOARD_SIZE, SHIP_SIZES, games, resp, caller, conv, flight, TOKEN_FILE,
      cli>>

\* What no handler that runs from load to save in one step changes: the
\* constants of app.py, the conversion, the requests in flight, and the
\* client's side.
fixed == <<BOARD_SIZE, SHIP_SIZES, conv, flight, TOKEN_FILE, cli>>

----------------------------------------------------------------------------
(* Bounds of the model *)

\* Side of the board of the game specifications (the code's value is 12).
GameBoardSize == 3

\* Side of the board of the placement specification.
PlaceBoardSize == 4

\* Successful and failing fire requests are explored while fewer than
\* MaxShots shots are recorded in the game.
MaxShots == 3

\* Side of the board of the request-surface specification.
ApiBoardSize == 2

\* Move requests of the request-surface specification are explored while
\* fewer than ApiShots shots are recorded in the game.
ApiShots == 2

\* Side of the board of the coordinate specification: the code's value.
CoordBoardSize == 12

\* The characters of the texts of the coordinate specification: column
\* letters in both cases, a letter past the last column, digits, and the
\* characters int() tolerates around a number.
CoordChars == {"A", "b", "L", "M", "0", "1", "2", "3", " ", "+", "-"}

\* The coordinate texts of the coordinate specification: every text of one
\* to three of these characters.
CoordTexts ==
    { << a >> : a \in CoordChars }
    \cup { << a, b >> : a \in CoordChars, b \in CoordChars }
    \cup { << a, b, c >> : a \in CoordChars, b \in CoordChars,
                           c \in CoordChars }

\* The requests the server handles at the same time (threads of the Flask
\* server, or worker processes over the same games directory).
MaxWorkers == 2

\* The retry bound a join is measured against: the rejected samples of one
\* join are counted up to RetryBound + 1.
RetryBound == 2

\* The ship catalogue of app.py:33, in dict (insertion) order.
Catalog ==
    << <<"A", 5>>, <<"B", 4>>, <<"S", 3>>, <<"D", 3>>, <<"P", 2>> >>

\* The fleets of the scaled engines: suffixes of the catalogue.
GameFleet == SubSeq(Catalog, 5, 5)
PlaceFleet == SubSeq(Catalog, 4, 5)

\* uuid4().hex values, in the order the server draws them: opaque and
\* pairwise different (the code only tests tokens for equality).
Uuids == << "t1", "t2", "t3" >>

\* The tokens of requests: a token is unknown to a game until a join of
\* that game has returned it.
Tokens == { Uuids[i] : i \in 1..Len(Uuids) }

\* The coordinate texts of fire requests: cells in canonical and lower-case
\* spelling, and one text outside every board of the model.
FireCoords ==
    { <<"A", "1">>, <<"B", "1">>, <<"b", "2">>, <<"Z", "9", "9">> }

\* The coordinate texts of the request-surface specification: two cells,
\* the absent or empty text, and texts that name no cell of any board of the
\* model (no number, no letter, row 0, a negative row, a row and a column
\* too far).
RequestCoords ==
    { <<"A", "1">>, <<"b", "2">>, << >>, <<"A">>, <<"1", "1">>, <<"A", "0">>,
      <<"A", "-", "1">>, <<"Z", "9", "9">>, <<"A", "9">>, <<"Z", "1">> }

\* The tokens of requests, with the absent or empty token.
RequestTokens == Tokens \cup {""}

\* _rand_id() values.  start_game is modelled for ids not yet on disk (six
\* random letters: the code does not test for a collision).
GameIds == {"g1"}

\* The game ids of requests: those start_game returns and one it never does.
RequestIds == GameIds \cup {"g0"}

Null == "null"

----------------------------------------------------------------------------
(* Text: characters, ord/chr, upper(), int() and decimal formatting *)

UpperLetters ==
    << "A", "B", "C", "D", "E", "F", "G", "H", "I", "J", "K", "L", "M",
       "N", "O", "P", "Q", "R", "S", "T", "U", "V", "W", "X", "Y", "Z" >>

LowerLetters ==
    << "a", "b", "c", "d", "e", "f", "g", "h", "i", "j", "k", "l", "m",
       "n", "o", "p", "q", "r", "s", "t", "u", "v", "w", "x", "y", "z" >>

DigitChars == << "0", "1", "2", "3", "4", "5", "6", "7", "8", "9" >>

IndexOf(seq, ch) ==
    IF \E i \in 1..Len(seq) : seq[i] = ch
    THEN CHOOSE i \in 1..Len(seq) : seq[i] = ch
    ELSE 0

\* ord(ch) for the characters of the model's alphabet (ASCII).
Ord(ch) ==
    IF IndexOf(UpperLetters, ch) > 0 THEN 64 + IndexOf(UpperLetters, ch)
    ELSE IF IndexOf(LowerLetters, ch) > 0 THEN 96 + IndexOf(LowerLetters, ch)
    ELSE IF IndexOf(DigitChars, ch) > 0 THEN 47 + IndexOf(DigitChars, ch)
    ELSE IF ch = " " THEN 32
    ELSE IF ch = "+" THEN 43
    ELSE IF ch = "-" THEN 45
    ELSE 126

\* chr(n) for the codes the model produces: 'A'..'Z'.
Chr(n) == UpperLetters[n - 64]

\* str.upper() of one character.
UpperChar(ch) ==
    IF IndexOf(LowerLetters, ch) > 0
    THEN UpperLetters[IndexOf(LowerLetters, ch)]
    ELSE ch

\* str.upper() of a text.
Upper(s) == [i \in 1..Len(s) |-> UpperChar(s[i])]

\* str(n) for n >= 0: the decimal digits.
RECURSIVE Decimal(_)
Decimal(n) ==
    IF n < 10 THEN << DigitChars[n + 1] >>
    ELSE Decimal(n \div 10) \o << DigitChars[(n % 10) + 1] >>

\* str(n) for any integer.
Str(n) == IF n < 0 THEN << "-" >> \o Decimal(-n) ELSE Decimal(n)

\* s.strip() for the blank of the alphabet.
RECURSIVE Strip(_)
Strip(s) ==
    IF s = << >> THEN s
    ELSE IF Head(s) = " " THEN Strip(Tail(s))
    ELSE IF s[Len(s)] = " " THEN Strip(SubSeq(s, 1, Len(s) - 1))
    ELSE s

RECURSIVE DigitsValue(_)
DigitsValue(s) ==
    IF s = << >> THEN 0
    ELSE 10 * DigitsValue(SubSeq(s, 1, Len(s) - 1))
         + (IndexOf(DigitChars, s[Len(s)]) - 1)

AllDigits(s) ==
    /\ Len(s) > 0
    /\ \A i \in 1..Len(s) : IndexOf(DigitChars, s[i]) > 0

\* int(s): blanks stripped, an optional sign, then decimal digits;
\* anything else raises ValueError (ok = FALSE).
ParseInt(s) ==
    LET t == Strip(s)
        signed == Len(t) > 0 /\ t[1] \in {"+", "-"}
        body == IF signed THEN Tail(t) ELSE t
    IN  IF AllDigits(body)
        THEN [ok |-> TRUE,
              val |-> IF signed /\ t[1] = "-"
                      THEN 0 - DigitsValue(body) ELSE DigitsValue(body)]
        ELSE [ok |-> FALSE, val |-> 0]

----------------------------------------------------------------------------
(* Helper utilities of app.py *)

\* The sizes of SHIP_SIZES by letter: SHIP_SIZES.get(letter, 0).
ShipSize(letter) ==
    IF \E i \in 1..Len(SHIP_SIZES) : SHIP_SIZES[i][1] = letter
    THEN LET i == CHOOSE j \in 1..Len(SHIP_SIZES) : SHIP_SIZES[j][1] = letter
         IN  SHIP_SIZES[i][2]
    ELSE 0

_empty_board ==
    [r \in 1..BOARD_SIZE |-> [c \in 1..BOARD_SIZE |-> "~"]]

\* board[row][col] with the code's 0-based indices.
Cell(board, row, col) == board[row + 1][col + 1]

_coord_from_rcMut(row, col) == << Chr(Ord("A") + col) >> \o Str(row)
_coord_from_rc(row, col) == << Chr(Ord("A") + col) >> \o Str(row + 1)

\* The candidate cells of one sample: orientation, then the anchor drawn
\* so that the ship fits (random.randint bounds are inclusive).
Candidates(size) ==
    { [i \in 1..size |-> <<r, c + i - 1>>] :
        r \in 0..(BOARD_SIZE - 1), c \in 0..(BOARD_SIZE - size) }
    \cup
    { [i \in 1..size |-> <<r + i - 1, c>>] :
        r \in 0..(BOARD_SIZE - size), c \in 0..(BOARD_SIZE - 1) }

\* The two rejection tests of a sample.
RejectedMut(board, blocked_coords, cells) ==
    \E i \in 1..Len(cells) :
        _coord_from_rc(cells[i][1], cells[i][2]) \in blocked_coords
Rejected(board, blocked_coords, cells) ==
    \/ \E i \in 1..Len(cells) : Cell(board, cells[i][1], cells[i][2]) /= "~"
    \/ \E i \in 1..Len(cells) :
          _coord_from_rc(cells[i][1], cells[i][2]) \in blocked_coords

\* for x, y in cells: board[x][y] = ship
MarkCells(board, cells, ship) ==
    [r \in 1..BOARD_SIZE |-> [c \in 1..BOARD_SIZE |->
        IF \E i \in 1..Len(cells) : cells[i] = <<r - 1, c - 1>>
        THEN ship ELSE board[r][c]]]

\* The boards _place_ships_randomly can leave, placing the ships from index i
\* on: every accepted sample of each ship in turn.  A ship with no accepted
\* sample contributes no board (the while loop never ends).
RECURSIVE PlaceFrom(_, _, _)
PlaceFrom(board, blocked_coords, i) ==
    IF i > Len(SHIP_SIZES) THEN {board}
    ELSE UNION { PlaceFrom(MarkCells(board, cells, SHIP_SIZES[i][1]),
                           blocked_coords, i + 1) :
                 cells \in { cs \in Candidates(SHIP_SIZES[i][2]) :
                             ~Rejected(board, blocked_coords, cs) } }

_place_ships_randomly(board, blocked_coords) ==
    PlaceFrom(board, blocked_coords, 1)

----------------------------------------------------------------------------
(* The persisted game: players is the ordered dict token -> slot *)

TokensOf(g) == { g.players[i].token : i \in 1..Len(g.players) }

Slot(g, token) ==
    g.players[CHOOSE i \in 1..Len(g.players) : g.players[i].token = token]

\* The coordinates of the ship cells of a board, as the code collects them.
ShipCoords(board) ==
    { _coord_from_rc(r, c) : <<r, c>> \in
        { rc \in (0..(BOARD_SIZE - 1)) \X (0..(BOARD_SIZE - 1)) :
            Cell(board, rc[1], rc[2]) /= "~" } }

\* "private_board": None.  A board has rows, so the empty sequence stands
\* for the JSON null of the field.
NoBoard == << >>

\* The fields of the JSON bodies of the handlers (join: token; move: result,
\* hit, sunk, sunk_name; state: id, turn, players, private_board,
\* sunk_ships, winner), with the values of a response that lacks them.
NoResp ==
    [op |-> "none", status |-> 0, error |-> Null, token |-> Null,
     result |-> Null, hit |-> FALSE, sunk |-> Null, sunk_name |-> Null,
     id |-> Null, turn |-> Null, players |-> << >>,
     private_board |-> NoBoard, sunk_ships |-> << >>, winner |-> Null]

Response(op, status, error) ==
    [NoResp EXCEPT !.op = op, !.status = status, !.error = error]

\* abort(status, description=error) in a handler that has loaded g: the
\* exception leaves the handler before _save_game, the file stays as loaded.
AbortMut(g, op, status, error) ==
    [game |-> [g EXCEPT !.turn = Null], resp |-> Response(op, status, error)]
Abort(g, op, status, error) ==
    [game |-> g, resp |-> Response(op, status, error)]

----------------------------------------------------------------------------
(* Handlers *)

\* POST /games/start
start_game ==
    [game |-> [players |-> << >>, turn |-> Null, winner |-> Null],
     resp |-> Response("start", 201, Null)]

\* if len(game["players"]) >= 2
GameFullMut(g) == Len(g.players) > 2
GameFull(g) == Len(g.players) >= 2

\* token = uuid.uuid4().hex
FreshToken(g) ==
    Uuids[CHOOSE i \in 1..Len(Uuids) :
            /\ Uuids[i] \notin TokensOf(g)
            /\ \A j \in 1..(i - 1) : Uuids[j] \in TokensOf(g)]

\* POST /games/<id>/join on the loaded game g, with the token uuid4 draws
\* and the board the placement leaves.

BlockedMut(g) == {}
Blocked(g) ==
    IF Len(g.players) > 0 THEN ShipCoords(g.players[1].board) ELSE {}

\* if game["turn"] is None: game["turn"] = token
JoinTurnMut(turn, token) == token
JoinTurn(turn, token) == IF turn = Null THEN token ELSE turn

join_game(g, token, board) ==
    IF GameFull(g)
    THEN Abort(g, "join", 400, "Game already has two players")
    ELSE [game |->
            [g EXCEPT
               !.players = Append(@, [token |-> token, board |-> board,
                                      hits |-> << >>, misses |-> << >>]),
               !.turn = JoinTurn(@, token)],
          resp |-> [Response("join", 200, Null) EXCEPT !.token = token]]

\* The opponent: next(t for t in game["players"] if t != token)
Opponent(g, token) ==
    LET i == CHOOSE j \in 1..Len(g.players) :
                 /\ g.players[j].token /= token
                 /\ \A m \in 1..(j - 1) : g.players[m].token = token
    IN  g.players[i].token

SlotIndex(g, token) ==
    CHOOSE i \in 1..Len(g.players) : g.players[i].token = token

\* col = ord(coord[0].upper()) - ord("A"); row = int(coord[1:]) - 1
ParseCoordWrapMut(coord) ==
    LET n == ParseInt(Tail(coord))
    IN  [ok |-> n.ok,
         col |-> (Ord(UpperChar(coord[1])) - Ord("A")) % BOARD_SIZE,
         row |-> (n.val - 1) % BOARD_SIZE]
ParseCoord(coord) ==
    LET n == ParseInt(Tail(coord))
    IN  [ok |-> n.ok,
         col |-> Ord(UpperChar(coord[1])) - Ord("A"),
         row |-> n.val - 1]

InBounds(row, col) ==
    /\ 0 <= row /\ row < BOARD_SIZE
    /\ 0 <= col /\ col < BOARD_SIZE

\* The text the sunk and win checks compare with a ship letter, for a stored
\* hit c: _coord_from_rc(int(c[1:]) - 1, ord(c[0].upper()) - ord("A"))
HitText(c) ==
    LET parsed == ParseCoord(c) IN _coord_from_rc(parsed.row, parsed.col)

\* sum(1 for c in opponent["hits"] if <HitText(c)> == letter)
HitsOnType(hits, letter) ==
    Cardinality({ i \in 1..Len(hits) : HitText(hits[i]) = << letter >> })

ship_names(letter) ==
    CASE letter = "A" -> "Aircraft Carrier"
      [] letter = "B" -> "Battleship"
      [] letter = "S" -> "Submarine"
      [] letter = "D" -> "Destroyer"
      [] letter = "P" -> "Patrol Boat"
      [] OTHER -> "Unknown Ship"

\* if hits_on_this_ship == SHIP_SIZES.get(ship_letter, 0)
SunkLetter(hits, hit, cell) ==
    IF hit /\ HitsOnType(hits, cell) = ShipSize(cell) THEN cell ELSE Null

\* all_sunk: no ship type has fewer hits than its size
AllSunk(hits) ==
    \A i \in 1..Len(SHIP_SIZES) :
        ~(HitsOnType(hits, SHIP_SIZES[i][1]) < SHIP_SIZES[i][2])

\* game["turn"] = opponent_token
NextTurnMut(g, token) == token
NextTurnFirstMut(g, token) == g.players[1].token
NextTurnNullMut(g, token) == Null
NextTurn(g, token) == Opponent(g, token)

\* opponent["hits"].append(coord.upper()) / opponent["misses"].append(...)
RecordShotMarkMut(slot, hit, coord) ==
    IF hit
    THEN [slot EXCEPT !.hits = Append(@, Upper(coord)),
                      !.board[ParseCoord(coord).row + 1]
                             [ParseCoord(coord).col + 1] = "~"]
    ELSE [slot EXCEPT !.misses = Append(@, Upper(coord))]
RecordShotBoardMut(slot, hit, coord) ==
    IF hit
    THEN [slot EXCEPT !.hits = Append(@, Upper(coord))]
    ELSE [slot EXCEPT !.misses = Append(@, Upper(coord)),
                      !.board[ParseCoord(coord).row + 1]
                             [ParseCoord(coord).col + 1] = "o"]
RecordShotSwapMut(slot, hit, coord) ==
    IF hit THEN [slot EXCEPT !.misses = Append(@, Upper(coord))]
    ELSE [slot EXCEPT !.hits = Append(@, Upper(coord))]
RecordShotMut(slot, hit, coord) ==
    [slot EXCEPT !.hits = Append(@, Upper(coord))]
RecordShot(slot, hit, coord) ==
    IF hit
    THEN [slot EXCEPT !.hits = Append(@, Upper(coord))]
    ELSE [slot EXCEPT !.misses = Append(@, Upper(coord))]

\* if game["turn"] != token
NotYourTurnMut(g, token) == FALSE
NotYourTurnAloneMut(g, token) == g.turn /= token \/ Len(g.players) < 2
NotYourTurn(g, token) == g.turn /= token

\* if token not in game["players"]
UnknownTokenMut(g, token) == FALSE
UnknownTokenLateMut(g, token) ==
    token \notin TokensOf(g) /\ Len(g.players) >= 2
UnknownToken(g, token) == token \notin TokensOf(g)

\* POST /games/<id>/move on the loaded game g.
make_move(g, token, coord) ==
    IF token = "" \/ coord = << >>
    THEN Abort(g, "move", 400, "Missing token or coord")
    ELSE IF UnknownToken(g, token)
    THEN Abort(g, "move", 403, "Invalid token for this game")
    ELSE IF NotYourTurn(g, token)
    THEN Abort(g, "move", 400, "Not your turn")
    ELSE IF Len(g.players) < 2
    THEN Abort(g, "move", 400, "Opponent has not joined the game yet")
    ELSE
    LET parsed == ParseCoord(coord) IN
    IF ~parsed.ok
    THEN Abort(g, "move", 400,
               "Coordinate format invalid (expected LetterNumber, e.g. B5)")
    ELSE IF ~InBounds(parsed.row, parsed.col)
    THEN Abort(g, "move", 400, "Coordinate out of bounds")
    ELSE
    LET opponent_token == Opponent(g, token)
        oi == SlotIndex(g, opponent_token)
        cell == Cell(g.players[oi].board, parsed.row, parsed.col)
        hit == cell /= "~"
        opponent == RecordShot(g.players[oi], hit, coord)
        sunk_letter == SunkLetter(opponent.hits, hit, cell)
        won == sunk_letter /= Null /\ AllSunk(opponent.hits)
    IN  [game |->
           [g EXCEPT !.players[oi] = opponent,
                     !.turn = NextTurn(g, token),
                     !.winner = IF won THEN token ELSE @],
         resp |->
           [Response("move", 200, Null) EXCEPT
              !.result = IF hit THEN "hit" ELSE "miss",
              !.hit = hit,
              !.sunk = sunk_letter,
              !.sunk_name = IF sunk_letter /= Null
                            THEN ship_names(sunk_letter) ELSE Null]]

\* public_players: token -> {"hits", "misses"}, in the order of the dict.
public_players(g) ==
    [i \in 1..Len(g.players) |->
        [token |-> g.players[i].token,
         hits |-> g.players[i].hits,
         misses |-> g.players[i].misses]]

\* hit_count of one ship type: the cells of opponent_board that hold the
\* letter and whose text is in hits.
hit_count(opponent_board, hits, ship_letter) ==
    Cardinality({ rc \in (0..(BOARD_SIZE - 1)) \X (0..(BOARD_SIZE - 1)) :
                    /\ Cell(opponent_board, rc[1], rc[2]) = ship_letter
                    /\ _coord_from_rc(rc[1], rc[2]) \in hits })

\* sunk_this_player for token: opponent_board is the board of the other
\* player, hits = set(game["players"][token]["hits"]).
sunk_this_player(g, token) ==
    LET opponent_board == Slot(g, Opponent(g, token)).board
        hits == { Slot(g, token).hits[i] :
                    i \in 1..Len(Slot(g, token).hits) }
        sunk(entry) == hit_count(opponent_board, hits, entry[1]) = entry[2]
        kept == SelectSeq(SHIP_SIZES, sunk)
    IN  [i \in 1..Len(kept) |-> kept[i][1]]

\* sunk_info: token -> the list of ship letters, in the order of the dict.
sunk_info(g) ==
    [i \in 1..Len(g.players) |->
        [token |-> g.players[i].token,
         ships |-> sunk_this_player(g, g.players[i].token)]]

\* if requester_token and requester_token in game["players"]
private_boardMut(g, requester_token) ==
    IF Len(g.players) > 0 THEN g.players[1].board ELSE NoBoard
private_board(g, requester_token) ==
    IF requester_token /= "" /\ requester_token \in TokensOf(g)
    THEN Slot(g, requester_token).board
    ELSE NoBoard

\* GET /games/<id>/state on the loaded game g.  With one player the search
\* for the opponent, next(t for t in game["players"] if t != token), finds
\* nothing: the StopIteration leaves the handler and Flask answers 500.
get_state(g, requester_token) ==
    IF Len(g.players) = 1
    THEN Response("state", 500, "Internal Server Error")
    ELSE [Response("state", 200, Null) EXCEPT
            !.turn = g.turn,
            !.players = public_players(g),
            !.private_board = private_board(g, requester_token),
            !.sunk_ships = sunk_info(g),
            !.winner = g.winner]

\* The shots recorded in a game.
Shots(g) ==
    IF Len(g.players) = 0 THEN 0
    ELSE IF Len(g.players) = 1
    THEN Len(g.players[1].hits) + Len(g.players[1].misses)
    ELSE Len(g.players[1].hits) + Len(g.players[1].misses)
         + Len(g.players[2].hits) + Len(g.players[2].misses)

----------------------------------------------------------------------------
(* Actions *)

\* TOKEN_FILE does not exist.
NoFile == [is_file |-> FALSE, text |-> << >>]

\* No command of the client has run.
NoCommand == [cmd |-> "none", requests |-> << >>, printed |-> "", exit |-> 0]

\* No coordinate is under conversion.
NoConv ==
    [from |-> "none", step |-> 0, text |-> << >>, cell |-> << >>,
     back_text |-> << >>, back_cell |-> << >>]

\* Path.is_file() of _load_game
Exists(game_id) == game_id \in DOMAIN games

\* _save_game
Saved(game_id, g) == [id \in DOMAIN games \cup {game_id} |->
                        IF id = game_id THEN g ELSE games[id]]

InitEngine(size, fleet) ==
    /\ BOARD_SIZE = size
    /\ SHIP_SIZES = fleet
    /\ games = << >>
    /\ resp = NoResp
    /\ caller = Null
    /\ conv = NoConv
    /\ flight = << >>
    /\ TOKEN_FILE = NoFile
    /\ cli = NoCommand

Init == InitEngine(GameBoardSize, GameFleet)

StartGame ==
    /\ \E game_id \in GameIds \ DOMAIN games :
         /\ games' = Saved(game_id, start_game.game)
         /\ resp' = start_game.resp
    /\ caller' = Null
    /\ UNCHANGED fixed

\* One join request, handled from load to save: the capacity test, then the
\* token and the placement.
Join ==
    /\ \E game_id \in DOMAIN games :
         LET g == games[game_id] IN
         /\ Len(g.players) < Len(Uuids)   \* a token is left to draw
         /\ \E board \in IF GameFull(g) THEN {_empty_board}
                         ELSE _place_ships_randomly(_empty_board, Blocked(g)) :
              LET r == join_game(g, FreshToken(g), board)
              IN  /\ games' = Saved(game_id, r.game)
                  /\ resp' = r.resp
    /\ caller' = Null
    /\ UNCHANGED fixed

\* One move request, handled from load to save.
Fire(game_id, token, coord) ==
    /\ game_id \in DOMAIN games
    /\ Shots(games[game_id]) < MaxShots
    /\ LET r == make_move(games[game_id], token, coord)
       IN  /\ games' = Saved(game_id, r.game)
           /\ resp' = r.resp
    /\ caller' = token
    /\ UNCHANGED fixed

Move == \E game_id \in GameIds, token \in Tokens, coord \in FireCoords :
            Fire(game_id, token, coord)

\* The cells of the board in row-major order, as canonical texts.
AllCoords ==
    [k \in 1..(BOARD_SIZE * BOARD_SIZE) |->
        _coord_from_rc((k - 1) \div BOARD_SIZE, (k - 1) % BOARD_SIZE)]

\* The texts recorded against a slot.
FiredAt(slot) ==
    { slot.hits[i] : i \in 1..Len(slot.hits) }
    \cup { slot.misses[i] : i \in 1..Len(slot.misses) }

\* A disciplined game: the turn holder fires at the first cell, in row-major
\* order, at which it has not fired yet.
SweepMove ==
    /\ \E game_id \in DOMAIN games :
         LET g == games[game_id] IN
         /\ Len(g.players) = 2
         /\ LET fired == FiredAt(Slot(g, Opponent(g, g.turn)))
                left == { k \in 1..Len(AllCoords) : AllCoords[k] \notin fired }
            IN  /\ left /= {}
                /\ LET k == CHOOSE m \in left : \A n \in left : m <= n
                       r == make_move(g, g.turn, AllCoords[k])
                   IN  /\ games' = Saved(game_id, r.game)
                       /\ resp' = r.resp
                       /\ caller' = g.turn
    /\ UNCHANGED fixed

Next == StartGame \/ Join \/ Move

Spec == Init /\ [][Next]_vars

SweepNext == StartGame \/ Join \/ SweepMove

SpecSweep == Init /\ [][SweepNext]_vars

PlaceInit == InitEngine(PlaceBoardSize, PlaceFleet)

PlaceNext == StartGame \/ Join

SpecPlace == PlaceInit /\ [][PlaceNext]_vars

\* abort(404, description="Game not found") of _load_game
NotFoundMut(op) == Response(op, 200, Null)
NotFound(op) == Response(op, 404, "Game not found")

\* One join request for any game id, handled from load to save.
JoinRequest(game_id) ==
    /\ IF ~Exists(game_id)
       THEN /\ resp' = NotFound("join")
            /\ UNCHANGED games
       ELSE LET g == games[game_id] IN
            /\ Len(g.players) < Len(Uuids)
            /\ \E board \in IF GameFull(g) THEN {_empty_board}
                            ELSE _place_ships_randomly(_empty_board,
                                                       Blocked(g)) :
                 LET r == join_game(g, FreshToken(g), board)
                 IN  /\ games' = Saved(game_id, r.game)
                     /\ resp' = r.resp
    /\ caller' = Null
    /\ UNCHANGED fixed

\* One move request for any game id: the payload test, then the load, then
\* the handler up to the save.
MoveRequest(game_id, token, coord) ==
    /\ Exists(game_id) => Shots(games[game_id]) < ApiShots
    /\ IF token = "" \/ coord = << >>
       THEN /\ resp' = Response("move", 400, "Missing token or coord")
            /\ UNCHANGED games
       ELSE IF ~Exists(game_id)
       THEN /\ resp' = NotFound("move")
            /\ UNCHANGED games
       ELSE LET r == make_move(games[game_id], token, coord)
            IN  /\ games' = Saved(game_id, r.game)
                /\ resp' = r.resp
    /\ caller' = token
    /\ UNCHANGED fixed

\* One state request for any game id.
StateRequest(game_id, token) ==
    /\ resp' = IF ~Exists(game_id) THEN NotFound("state")
               ELSE LET r == get_state(games[game_id], token)
                    IN  IF r.status = 200 THEN [r EXCEPT !.id = game_id]
                        ELSE r
    /\ caller' = token
    /\ UNCHANGED <<fixed, games>>

ApiJoin == \E game_id \in RequestIds : JoinRequest(game_id)

ApiMove ==
    \E game_id \in RequestIds, token \in RequestTokens,
       coord \in RequestCoords : MoveRequest(game_id, token, coord)

ApiState ==
    \E game_id \in RequestIds, token \in RequestTokens :
        StateRequest(game_id, token)

ApiInit == InitEngine(ApiBoardSize, GameFleet)

ApiNext == StartGame \/ ApiJoin \/ ApiMove \/ ApiState

\* The disciplined game with state requests between the moves.
StateNext == StartGame \/ Join \/ SweepMove \/ ApiState

SpecState == Init /\ [][StateNext]_vars

SpecApi == ApiInit /\ [][ApiNext]_vars

\* make_move accepts the text as a coordinate: it is present, it converts
\* without an exception and the cell is on the board.
Accepts(coord) ==
    /\ coord /= << >>
    /\ ParseCoord(coord).ok
    /\ InBounds(ParseCoord(coord).row, ParseCoord(coord).col)

\* The coordinate specification: a text is converted to a cell as make_move
\* does and the cell back to a text with _coord_from_rc, and a cell of the
\* board is converted to a text and the text back to a cell.
CoordInit ==
    /\ BOARD_SIZE = CoordBoardSize
    /\ SHIP_SIZES = Catalog
    /\ games = << >>
    /\ resp = NoResp
    /\ caller = Null
    /\ flight = << >>
    /\ TOKEN_FILE = NoFile
    /\ cli = NoCommand
    /\ conv \in
         { [NoConv EXCEPT !.from = "text", !.text = s] : s \in CoordTexts }
         \cup { [NoConv EXCEPT !.from = "cell", !.cell = rc] :
                  rc \in (0..(CoordBoardSize - 1))
                         \X (0..(CoordBoardSize - 1)) }

\* The text of the conversion goes through lines 260-267 of make_move.
ParseText ==
    /\ \/ conv.from = "text" /\ conv.step = 0
       \/ conv.from = "cell" /\ conv.step = 1
    /\ LET p == ParseCoord(conv.text)
           rc == << p.row, p.col >>
       IN  conv' =
             IF ~Accepts(conv.text) THEN [conv EXCEPT !.step = -1]
             ELSE IF conv.from = "text"
             THEN [conv EXCEPT !.step = 1, !.cell = rc]
             ELSE [conv EXCEPT !.step = 2, !.back_cell = rc]
    /\ UNCHANGED <<BOARD_SIZE, SHIP_SIZES, games, resp, caller, flight,
                 TOKEN_FILE, cli>>

\* The cell of the conversion goes through _coord_from_rc.
FormatCell ==
    /\ \/ conv.from = "cell" /\ conv.step = 0
       \/ conv.from = "text" /\ conv.step = 1
    /\ LET t == _coord_from_rc(conv.cell[1], conv.cell[2])
       IN  conv' =
             IF conv.from = "cell"
             THEN [conv EXCEPT !.step = 1, !.text = t]
             ELSE [conv EXCEPT !.step = 2, !.back_text = t]
    /\ UNCHANGED <<BOARD_SIZE, SHIP_SIZES, games, resp, caller, flight,
                 TOKEN_FILE, cli>>

CoordNext == ParseText \/ FormatCell

SpecCoord == CoordInit /\ [][CoordNext]_vars

\* The requests in flight once worker k holds the given locals.
Running(k, locals) ==
    [w \in DOMAIN flight \cup {k} |-> IF w = k THEN locals ELSE flight[w]]

\* The requests in flight once worker k has answered.
Answered(k) ==
    IF DOMAIN flight = {k} THEN << >>
    ELSE [w \in DOMAIN flight \ {k} |-> flight[w]]

\* make_move on worker k, up to the load: the payload test has passed and
\* game = _load_game(game_id) is the handler's copy of the file.
LoadMove(k, game_id, token, coord) ==
    /\ k \notin DOMAIN flight
    /\ token /= "" /\ coord /= << >>
    /\ Exists(game_id)
    /\ Shots(games[game_id]) < ApiShots
    /\ flight' = Running(k, [op |-> "move", game_id |-> game_id,
                             token |-> token, coord |-> coord,
                             game |-> games[game_id]])
    /\ UNCHANGED <<BOARD_SIZE, SHIP_SIZES, conv, games, resp, caller,
                 TOKEN_FILE, cli>>

\* make_move on worker k, from the load on: the tests, the append and the
\* turn on the handler's copy, then _save_game and the response.  Nothing
\* in app.py keeps another worker from loading or saving in between.
SaveMove(k) ==
    /\ k \in DOMAIN flight
    /\ flight[k].op = "move"
    /\ LET f == flight[k]
           r == make_move(f.game, f.token, f.coord)
       IN  /\ games' = IF r.resp.status = 200
                       THEN Saved(f.game_id, r.game) ELSE games
           /\ resp' = r.resp
           /\ caller' = f.token
    /\ flight' = Answered(k)
    /\ UNCHANGED <<BOARD_SIZE, SHIP_SIZES, conv, TOKEN_FILE, cli>>

RaceLoad ==
    \E k \in 1..MaxWorkers, game_id \in GameIds, token \in Tokens,
       coord \in FireCoords : LoadMove(k, game_id, token, coord)

RaceSave == \E k \in 1..MaxWorkers : SaveMove(k)

\* Joins handled one at a time, moves handled by MaxWorkers workers.
RaceNext == StartGame \/ Join \/ RaceLoad \/ RaceSave

SpecRace == ApiInit /\ [][RaceNext]_vars

\* ---- One join, one sample at a time ----
\* join_game up to the call of _place_ships_randomly: the game is loaded, the
\* capacity test passed, the token drawn, the board emptied and the blocked
\* set collected.  ship is the index of the ship being placed; rejected
\* counts the samples the while loop has rejected (the code keeps no count).
\* The tokens drawn by the joins in progress.
DrawnTokens ==
    { flight[w].token : w \in { v \in DOMAIN flight : flight[v].op = "join" } }

\* token = uuid.uuid4().hex: the next value no player of g and no join in
\* progress holds.
FreshUuid(g) ==
    Uuids[CHOOSE i \in 1..Len(Uuids) :
            /\ Uuids[i] \notin TokensOf(g) \cup DrawnTokens
            /\ \A j \in 1..(i - 1) : Uuids[j] \in TokensOf(g) \cup DrawnTokens]

LoadJoin(k, game_id) ==
    /\ k \notin DOMAIN flight
    /\ Exists(game_id)
    /\ ~GameFull(games[game_id])
    /\ Tokens \ (TokensOf(games[game_id]) \cup DrawnTokens) /= {}
    /\ flight' = Running(k, [op |-> "join", game_id |-> game_id,
                             game |-> games[game_id],
                             token |-> FreshUuid(games[game_id]),
                             board |-> _empty_board,
                             blocked |-> Blocked(games[game_id]),
                             ship |-> 1, rejected |-> 0])
    /\ UNCHANGED <<BOARD_SIZE, SHIP_SIZES, conv, games, resp, caller,
                 TOKEN_FILE, cli>>

\* One iteration of "while not placed": a sample is drawn; a rejected sample
\* continues the loop with nothing changed, an accepted one marks the cells
\* and moves to the next ship.
SampledMut(f, cells) ==
    IF Rejected(f.board, f.blocked, cells) \/ f.ship > 1 THEN f
    ELSE [f EXCEPT !.board = MarkCells(@, cells, SHIP_SIZES[f.ship][1]),
                   !.ship = @ + 1]
Sampled(f, cells) ==
    IF Rejected(f.board, f.blocked, cells) THEN f
    ELSE [f EXCEPT !.board = MarkCells(@, cells, SHIP_SIZES[f.ship][1]),
                   !.ship = @ + 1]

Sample(k) ==
    /\ k \in DOMAIN flight
    /\ flight[k].op = "join"
    /\ flight[k].ship <= Len(SHIP_SIZES)
    /\ \E cells \in Candidates(SHIP_SIZES[flight[k].ship][2]) :
         flight' = Running(k, Sampled(flight[k], cells))
    /\ UNCHANGED <<BOARD_SIZE, SHIP_SIZES, conv, games, resp, caller,
                 TOKEN_FILE, cli>>

\* The same iteration with the rejected samples counted, up to RetryBound + 1.
CountedSample(k) ==
    /\ k \in DOMAIN flight
    /\ flight[k].op = "join"
    /\ flight[k].ship <= Len(SHIP_SIZES)
    /\ \E cells \in Candidates(SHIP_SIZES[flight[k].ship][2]) :
         LET f == flight[k] IN
         /\ Rejected(f.board, f.blocked, cells) => f.rejected <= RetryBound
         /\ flight' = Running(k,
                IF Rejected(f.board, f.blocked, cells)
                THEN [f EXCEPT !.rejected = @ + 1]
                ELSE Sampled(f, cells))
    /\ UNCHANGED <<BOARD_SIZE, SHIP_SIZES, conv, games, resp, caller,
                 TOKEN_FILE, cli>>

\* join_game after the placement: the player is added, the turn set, the
\* game saved and the token returned.
SaveJoin(k) ==
    /\ k \in DOMAIN flight
    /\ flight[k].op = "join"
    /\ flight[k].ship > Len(SHIP_SIZES)
    /\ LET f == flight[k]
           r == join_game(f.game, f.token, f.board)
       IN  /\ games' = Saved(f.game_id, r.game)
           /\ resp' = r.resp
    /\ caller' = Null
    /\ flight' = Answered(k)
    /\ UNCHANGED <<BOARD_SIZE, SHIP_SIZES, conv, TOKEN_FILE, cli>>

SampleLoad == \E game_id \in GameIds : LoadJoin(1, game_id)

SampleStep == Sample(1)

CountedStep == CountedSample(1)

SampleSave == SaveJoin(1)

SampleNext == StartGame \/ SampleLoad \/ SampleStep \/ SampleSave

SpecSample == PlaceInit /\ [][SampleNext]_vars

\* Fair random sampling: a sample that is accepted with positive probability
\* at every draw is eventually drawn, and the handler then runs on.
SpecSampleFair == SpecSample /\ WF_vars(SampleStep) /\ WF_vars(SampleSave)

RetryInit == InitEngine(GameBoardSize, PlaceFleet)

RetryNext == StartGame \/ SampleLoad \/ CountedStep \/ SampleSave

SpecRetry == RetryInit /\ [][RetryNext]_vars

\* ---- Joins handled at the same time ----
JoinRaceLoad ==
    \E k \in 1..MaxWorkers, game_id \in GameIds : LoadJoin(k, game_id)

JoinRaceSample == \E k \in 1..MaxWorkers : Sample(k)

JoinRaceSave == \E k \in 1..MaxWorkers : SaveJoin(k)

JoinRaceNext == StartGame \/ JoinRaceLoad \/ JoinRaceSample \/ JoinRaceSave

SpecJoinRace == ApiInit /\ [][JoinRaceNext]_vars

\* ---- Fires in the spellings int() and upper() accept ----
\* Spellings of cells A1, B1 and B2: canonical, lower-case letter, leading
\* zero, blank before the number, signed number.
SpellCoords ==
    { <<"A", "1">>, <<"a", "1">>, <<"A", "0", "1">>, <<"B", " ", "1">>,
      <<"b", "2">>, <<"B", "+", "2">> }

SpellMove == \E game_id \in GameIds, token \in Tokens, coord \in SpellCoords :
                 Fire(game_id, token, coord)

SpellNext == StartGame \/ Join \/ SpellMove

SpecSpell == ApiInit /\ [][SpellNext]_vars

----------------------------------------------------------------------------
(* The command-line client (src/client/battleship.py) *)

\* The game ids and tokens of the model as Python strings, and back.
TextOf(name) ==
    CASE name = "g1" -> << "g", "1" >>
      [] name = "g0" -> << "g", "0" >>
      [] name = "t1" -> << "t", "1" >>
      [] name = "t2" -> << "t", "2" >>
      [] name = "t3" -> << "t", "3" >>
      [] OTHER -> << "?" >>

NameOf(text) ==
    IF \E n \in RequestIds \cup Tokens : TextOf(n) = text
    THEN CHOOSE n \in RequestIds \cup Tokens : TextOf(n) = text
    ELSE "?"

\* json.dumps of a str: quotes and backslashes are escaped.
RECURSIVE Escape(_)
Escape(s) ==
    IF s = << >> THEN << >>
    ELSE (IF Head(s) \in {"\"", "\\"} THEN << "\\", Head(s) >>
          ELSE << Head(s) >>) \o Escape(Tail(s))

JsonString(s) == << "\"" >> \o Escape(s) \o << "\"" >>

KeyGameId == << "g", "a", "m", "e", "_", "i", "d" >>

KeyToken == << "t", "o", "k", "e", "n" >>

\* json.dumps({"game_id": game_id, "token": token})
DumpsMut(game_id, token) ==
    << "{" >> \o JsonString(KeyGameId) \o << ":", " " >> \o JsonString(token)
    \o << ",", " " >> \o JsonString(KeyToken) \o << ":", " " >>
    \o JsonString(game_id) \o << "}" >>
Dumps(game_id, token) ==
    << "{" >> \o JsonString(KeyGameId) \o << ":", " " >> \o JsonString(game_id)
    \o << ",", " " >> \o JsonString(KeyToken) \o << ":", " " >>
    \o JsonString(token) \o << "}" >>

\* json.loads, for an object of string members.  Blanks are skipped between
\* the tokens of the text.
RECURSIVE SkipWs(_, _)
SkipWs(text, i) ==
    IF i <= Len(text) /\ text[i] = " " THEN SkipWs(text, i + 1) ELSE i

\* The characters of a JSON string from position i, after its opening
\* quote, up to the closing quote.
RECURSIVE ScanString(_, _, _)
ScanString(text, i, acc) ==
    IF i > Len(text) THEN [ok |-> FALSE, val |-> << >>, next |-> i]
    ELSE IF text[i] = "\"" THEN [ok |-> TRUE, val |-> acc, next |-> i + 1]
    ELSE IF text[i] = "\\"
    THEN IF i + 1 <= Len(text) /\ text[i + 1] \in {"\"", "\\", "/"}
         THEN ScanString(text, i + 2, Append(acc, text[i + 1]))
         ELSE [ok |-> FALSE, val |-> << >>, next |-> i]
    ELSE ScanString(text, i + 1, Append(acc, text[i]))

ReadString(text, i) ==
    IF i <= Len(text) /\ text[i] = "\"" THEN ScanString(text, i + 1, << >>)
    ELSE [ok |-> FALSE, val |-> << >>, next |-> i]

\* The members of an object from position i (the first member's key), as
\* pairs <<key, value>> in the order read.
RECURSIVE ReadMembers(_, _, _)
ReadMembers(text, i, acc) ==
    LET key == ReadString(text, SkipWs(text, i))
        colon == SkipWs(text, key.next)
        val == ReadString(text, SkipWs(text, colon + 1))
        after == SkipWs(text, val.next)
    IN  IF ~key.ok \/ colon > Len(text) \/ text[colon] /= ":" \/ ~val.ok
           \/ after > Len(text)
        THEN [ok |-> FALSE, members |-> << >>]
        ELSE IF text[after] = ","
        THEN ReadMembers(text, after + 1, Append(acc, << key.val, val.val >>))
        ELSE IF text[after] = "}" /\ SkipWs(text, after + 1) > Len(text)
        THEN [ok |-> TRUE, members |-> Append(acc, << key.val, val.val >>)]
        ELSE [ok |-> FALSE, members |-> << >>]

Loads(text) ==
    LET open == SkipWs(text, 1) IN
    IF open > Len(text) \/ text[open] /= "{"
    THEN [ok |-> FALSE, members |-> << >>]
    ELSE ReadMembers(text, open + 1, << >>)

\* d[key]: the value of the last member with that key.
Member(members, key) ==
    LET at == { i \in 1..Len(members) : members[i][1] = key }
    IN  IF at = {} THEN << >>
        ELSE members[CHOOSE i \in at : \A j \in at : j <= i][2]

\* _load_token returned None.
None == [ok |-> FALSE, game_id |-> "", token |-> ""]

\* TOKEN_FILE.write_text(json.dumps(data))
_save_token(game_id, token) ==
    [is_file |-> TRUE, text |-> Dumps(TextOf(game_id), TextOf(token))]

\* None when the file does not exist or does not parse, else the dict read.
LoadToken(file) ==
    IF ~file.is_file THEN None
    ELSE LET d == Loads(file.text) IN
         IF ~d.ok THEN None
         ELSE [ok |-> TRUE,
               game_id |-> NameOf(Member(d.members, KeyGameId)),
               token |-> NameOf(Member(d.members, KeyToken))]

_load_token == LoadToken(TOKEN_FILE)

\* TOKEN_FILE.unlink()
_clear_token == NoFile

\* GET games/<id>/state?token=<token>
_fetch_state(game_id, token) ==
    IF ~Exists(game_id) THEN NotFound("state")
    ELSE LET r == get_state(games[game_id], token)
         IN  IF r.status = 200 THEN [r EXCEPT !.id = game_id] ELSE r

\* What a command did: the requests it sent, its last line and exit status.
Ran(cmd, requests, printed, exit) ==
    [cmd |-> cmd, requests |-> requests, printed |-> printed, exit |-> exit]

\* battleship start: a new game, joined as its first player, token stored.
cmd_start ==
    /\ \E game_id \in GameIds \ DOMAIN games :
         \E board \in _place_ships_randomly(_empty_board, {}) :
            LET g == start_game.game
                r == join_game(g, FreshToken(g), board)
            IN  /\ games' = Saved(game_id, r.game)
                /\ resp' = r.resp
                /\ TOKEN_FILE' = _save_token(game_id, r.resp.token)
    /\ caller' = Null
    /\ cli' = Ran("start", << "start", "join" >>, "New game created!", 0)
    /\ UNCHANGED <<BOARD_SIZE, SHIP_SIZES, conv, flight>>

\* battleship join <game_id>: the token is stored when the join succeeds;
\* _api exits on an error response.
cmd_join(game_id) ==
    /\ IF ~Exists(game_id)
       THEN /\ resp' = NotFound("join")
            /\ UNCHANGED <<games, TOKEN_FILE>>
       ELSE LET g == games[game_id] IN
            /\ Len(g.players) < Len(Uuids)
            /\ \E board \in IF GameFull(g) THEN {_empty_board}
                            ELSE _place_ships_randomly(_empty_board,
                                                       Blocked(g)) :
                 LET r == join_game(g, FreshToken(g), board)
                 IN  /\ games' = Saved(game_id, r.game)
                     /\ resp' = r.resp
                     /\ TOKEN_FILE' = IF r.resp.status = 200
                                      THEN _save_token(game_id, r.resp.token)
                                      ELSE TOKEN_FILE
    /\ caller' = Null
    /\ cli' = IF resp'.status = 200
              THEN Ran("join", << "join" >>, "Joined game", 0)
              ELSE Ran("join", << "join" >>, "Error", 1)
    /\ UNCHANGED <<BOARD_SIZE, SHIP_SIZES, conv, flight>>

\* battleship status
cmd_status ==
    /\ LET cur == _load_token IN
       IF ~cur.ok
       THEN /\ cli' = Ran("status", << >>,
                 "No active game. Use 'battleship start' or 'battleship join <id>'.",
                 0)
            /\ UNCHANGED <<resp, caller>>
       ELSE LET state == _fetch_state(cur.game_id, cur.token) IN
            /\ resp' = state
            /\ caller' = cur.token
            /\ cli' = IF state.status /= 200
                      THEN Ran("status", << "state" >>, "Error fetching state", 1)
                      ELSE IF state.turn = cur.token
                      THEN Ran("status", << "state" >>, "Turn: you", 0)
                      ELSE Ran("status", << "state" >>, "Turn: opponent", 0)
    /\ UNCHANGED <<BOARD_SIZE, SHIP_SIZES, conv, flight, games, TOKEN_FILE>>

\* if state["turn"] != cur["token"]
NotMyTurnMut(state, cur) == FALSE
NotMyTurn(state, cur) == state.turn /= cur.token

\* battleship fire <coord>
cmd_fire(arg) ==
    /\ (_load_token.ok /\ Exists(_load_token.game_id)) =>
          Shots(games[_load_token.game_id]) < ApiShots
    /\ LET coord == Upper(arg)
           cur == _load_token
       IN
       IF ~cur.ok
       THEN /\ cli' = Ran("fire", << >>, "No active game.", 1)
            /\ UNCHANGED <<games, resp, caller>>
       ELSE LET state == _fetch_state(cur.game_id, cur.token) IN
            /\ caller' = cur.token
            /\ IF state.status /= 200
               THEN /\ cli' = Ran("fire", << "state" >>, "Error fetching state", 1)
                    /\ resp' = state
                    /\ UNCHANGED games
               ELSE IF NotMyTurn(state, cur)
               THEN /\ cli' = Ran("fire", << "state" >>, "It's not your turn yet.", 0)
                    /\ resp' = state
                    /\ UNCHANGED games
               ELSE LET r == make_move(games[cur.game_id], cur.token, coord) IN
                    IF r.resp.status /= 200
                    THEN /\ cli' = Ran("fire", << "state", "move" >>, "Move failed", 0)
                         /\ resp' = r.resp
                         /\ UNCHANGED games
                    ELSE /\ games' = Saved(cur.game_id, r.game)
                         /\ resp' = LET new_state == get_state(r.game, cur.token)
                                    IN  IF new_state.status = 200
                                        THEN [new_state EXCEPT !.id = cur.game_id]
                                        ELSE new_state
                         /\ cli' = Ran("fire", << "state", "move", "state" >>,
                                       IF r.resp.hit THEN "You fired: HIT"
                                       ELSE "You fired: MISS", 0)
    /\ UNCHANGED <<BOARD_SIZE, SHIP_SIZES, conv, flight, TOKEN_FILE>>

\* battleship quit
cmd_quit ==
    /\ TOKEN_FILE' = _clear_token
    /\ cli' = Ran("quit", << >>, "Current game cleared from local storage.", 0)
    /\ UNCHANGED <<BOARD_SIZE, SHIP_SIZES, conv, flight, games, resp, caller>>

\* The coordinates typed at the client: a cell in lower case and a text off
\* the board.
ClientCoords == { << "b", "2" >>, << "Z", "9", "9" >> }

\* The coordinate the other player sends.
OtherCoords == { << "A", "1" >> }

CmdJoin == \E game_id \in RequestIds : cmd_join(game_id)

CmdFire == \E arg \in ClientCoords : cmd_fire(arg)

\* The other player at the server's interface: a fire of a player whose
\* token is not the stored one.
OtherMove ==
    \E game_id \in DOMAIN games :
        \E token \in TokensOf(games[game_id]) \ {_load_token.token},
           coord \in OtherCoords :
             MoveRequest(game_id, token, coord)

ClientNext ==
    \/ cmd_start \/ CmdJoin \/ cmd_status \/ CmdFire \/ cmd_quit
    \/ StartGame \/ Join \/ OtherMove

SpecClient == ApiInit /\ [][ClientNext]_vars

----------------------------------------------------------------------------
(* Properties *)

TheGame == "g1"

Started == TheGame \in DOMAIN games

\* A step that handles the move request (token, coord) of the game.
FireStep(token, coord) == Fire(TheGame, token, coord)

\* The step was a move request answered 200.
Accepted == resp'.op = "move" /\ resp'.status = 200

\* C1: after every successful fire by t in a two-player game, turn is the
\* token of t's opponent (the other player of the game), whatever the shot
\* was.
C1_TurnAdvances ==
    [][Accepted =>
         /\ Len(games[TheGame].players) = 2
         /\ caller' \in TokensOf(games[TheGame])
         /\ games'[TheGame].turn \in TokensOf(games[TheGame]) \ {caller'}]_vars

\* A second accepted fire has been a hit and the turn is back with the
\* first joiner.
C1_Witness ==
    /\ Started
    /\ resp.op = "move" /\ resp.status = 200 /\ resp.hit
    /\ Shots(games[TheGame]) = 2
    /\ games[TheGame].turn = games[TheGame].players[1].token

\* C2: a fire by a player of the game who does not hold the turn fails with
\* "Not your turn" and changes nothing of the game.
C2_NotYourTurn ==
    [][(/\ resp'.op = "move"
        /\ caller' \in TokensOf(games[TheGame])
        /\ games[TheGame].turn /= caller') =>
            /\ resp'.status = 400
            /\ resp'.error = "Not your turn"
            /\ resp'.result = Null
            /\ games' = games]_vars

\* The request of the player without the turn has been refused after a shot
\* was recorded.
C2_Witness ==
    /\ Started
    /\ resp.op = "move" /\ resp.error = "Not your turn"
    /\ caller \in TokensOf(games[TheGame])
    /\ Shots(games[TheGame]) >= 1

\* The slot of the player of g other than token.
OtherSlot(g, token) ==
    g.players[CHOOSE i \in 1..Len(g.players) : g.players[i].token /= token]

HitSet(slot) == { slot.hits[i] : i \in 1..Len(slot.hits) }

\* Every ship cell of the slot's board is among the hits recorded against it.
FullyHit(slot) == ShipCoords(slot.board) \subseteq HitSet(slot)

\* C3: winner is set if and only if all ship types of the opponent are fully
\* hit: a successful fire by t that leaves every ship cell of the opponent
\* hit sets winner = t, and whenever winner is set every ship cell of the
\* loser is hit.
C3_WinnerIffAllHit ==
    /\ [][Accepted =>
            (FullyHit(OtherSlot(games'[TheGame], caller')) =>
                games'[TheGame].winner = caller')]_vars
    /\ [](Started /\ Len(games[TheGame].players) = 2 =>
            (games[TheGame].winner /= Null =>
                /\ games[TheGame].winner \in TokensOf(games[TheGame])
                /\ FullyHit(OtherSlot(games[TheGame],
                                      games[TheGame].winner))))

\* The coordinates of the cells of a board that hold the given ship type.
TypeCoords(board, letter) ==
    { _coord_from_rc(rc[1], rc[2]) : rc \in
        { x \in (0..(BOARD_SIZE - 1)) \X (0..(BOARD_SIZE - 1)) :
            Cell(board, x[1], x[2]) = letter } }

\* The ship type a fire at coord sinks: the type of the cell fired at, when
\* the cell was not hit before and the shot completes the hits on the type.
NewlySunk(before, after, coord) ==
    LET p == ParseCoord(coord)
        letter == Cell(before.board, p.row, p.col)
    IN  IF /\ letter /= "~"
           /\ _coord_from_rc(p.row, p.col) \notin HitSet(before)
           /\ TypeCoords(before.board, letter) \subseteq HitSet(after)
        THEN letter ELSE Null

\* C4: a ship is reported sunk exactly once: the response of a fire carries
\* the type's code and friendly name on the move that hits the last cell of
\* the type not hit before, and no sunk ship on every other move.
C4_SunkReportedOnce ==
    [][Accepted =>
         \A c \in FireCoords :
            FireStep(caller', c) =>
               LET sunk == NewlySunk(OtherSlot(games[TheGame], caller'),
                                     OtherSlot(games'[TheGame], caller'), c)
               IN  /\ resp'.sunk = sunk
                   /\ resp'.sunk_name =
                        IF sunk = Null THEN Null ELSE ship_names(sunk)]_vars

\* C5: in a two-player game where the turn holder always fires and nobody
\* fires twice at a coordinate, winner is non-null no later than the move on
\* which one player has fired at every cell of the board.
C5_WinnerByFullBoard ==
    (Started /\ Len(games[TheGame].players) = 2) =>
        \A i \in 1..2 :
            ({ AllCoords[k] : k \in 1..Len(AllCoords) }
                 \subseteq FiredAt(games[TheGame].players[i]))
            => games[TheGame].winner /= Null

\* C6: a game never holds more than two players: a join on a game that has
\* two players fails with "Game already has two players", returns no token
\* and leaves the persisted game unchanged.
C6_GameFull ==
    /\ [](Started => Len(games[TheGame].players) <= 2)
    /\ [][(resp'.op = "join" /\ Len(games[TheGame].players) >= 2) =>
            /\ resp'.status = 400
            /\ resp'.error = "Game already has two players"
            /\ resp'.token = Null
            /\ games' = games]_vars

\* A join was refused on a game in which a shot is recorded.
C6_Witness ==
    /\ Started
    /\ resp.op = "join" /\ resp.status = 400
    /\ Len(games[TheGame].players) = 2
    /\ Shots(games[TheGame]) >= 1

\* The cells of a board holding the given ship type.
TypeCells(board, letter) ==
    { rc \in (1..BOARD_SIZE) \X (1..BOARD_SIZE) : board[rc[1]][rc[2]] = letter }

\* S is a straight run of n cells: n consecutive cells of one row or column,
\* counted from one of its cells.
IsRun(S, n) ==
    \E a \in S :
        \/ S = { <<a[1], a[2] + i>> : i \in 0..(n - 1) }
        \/ S = { <<a[1] + i, a[2]>> : i \in 0..(n - 1) }

ValidFleet(board) ==
    LET letters == { SHIP_SIZES[i][1] : i \in 1..Len(SHIP_SIZES) }
        marks == {"~"} \cup letters
    IN  /\ DOMAIN board = 1..BOARD_SIZE
        /\ \A r \in 1..BOARD_SIZE :
              /\ DOMAIN board[r] = 1..BOARD_SIZE
              /\ \A c \in 1..BOARD_SIZE : board[r][c] \in marks
        /\ \A i \in 1..Len(SHIP_SIZES) :
              LET cells == TypeCells(board, SHIP_SIZES[i][1])
              IN  IsRun(cells, SHIP_SIZES[i][2])

\* C7: every board fleet placement produces, for the first or the second
\* player, holds each ship type of the catalogue exactly once, as one
\* in-bounds straight run of the type's size; every other cell is empty.
C7_FleetWellFormed ==
    Started =>
        \A i \in 1..Len(games[TheGame].players) :
            ValidFleet(games[TheGame].players[i].board)

\* Both players have joined; the second fleet has a ship in one column next
\* to a ship in one row.
C7_Witness ==
    /\ Started
    /\ Len(games[TheGame].players) = 2
    /\ LET b == games[TheGame].players[2].board
       IN  /\ \E c \in 1..BOARD_SIZE :
                 \A rc \in TypeCells(b, SHIP_SIZES[1][1]) : rc[2] = c
           /\ \E r \in 1..BOARD_SIZE :
                 \A rc \in TypeCells(b, SHIP_SIZES[2][1]) : rc[1] = r

ShipCells(board) ==
    { rc \in (1..BOARD_SIZE) \X (1..BOARD_SIZE) : board[rc[1]][rc[2]] /= "~" }

\* C8: in every game with two players, the cells the second player's fleet
\* occupies are disjoint from the cells the first player's fleet occupies.
C8_FleetsDisjoint ==
    (Started /\ Len(games[TheGame].players) = 2) =>
        ShipCells(games[TheGame].players[1].board)
            \cap ShipCells(games[TheGame].players[2].board) = {}

\* Both fleets are placed and a ship of the second lies directly right of a
\* ship cell of the first.
C8_Witness ==
    /\ Started
    /\ Len(games[TheGame].players) = 2
    /\ \E rc \in ShipCells(games[TheGame].players[1].board) :
          <<rc[1], rc[2] + 1>> \in ShipCells(games[TheGame].players[2].board)

\* C9: a successful fire by t at c is classified against the opponent's board
\* only: a ship in the opponent's cell at c gives "hit" and appends c to the
\* hits against the opponent, an empty cell gives "miss" and appends c to the
\* misses against the opponent; the record against t does not change.
C9_ShotRecorded ==
    [][Accepted =>
         \A c \in FireCoords :
            FireStep(caller', c) =>
               LET before == OtherSlot(games[TheGame], caller')
                   after == OtherSlot(games'[TheGame], caller')
                   p == ParseCoord(c)
                   ship == before.board[p.row + 1][p.col + 1] /= "~"
               IN  /\ after.token = before.token
                   /\ after.board = before.board
                   /\ resp'.hit = ship
                   /\ resp'.result = IF ship THEN "hit" ELSE "miss"
                   /\ after.hits = IF ship THEN Append(before.hits, Upper(c))
                                   ELSE before.hits
                   /\ after.misses = IF ship THEN before.misses
                                     ELSE Append(before.misses, Upper(c))
                   /\ Slot(games'[TheGame], caller')
                        = Slot(games[TheGame], caller')]_vars

\* The second player has fired: a hit and a miss are recorded, one against
\* each player.
C9_Witness ==
    /\ Started
    /\ Len(games[TheGame].players) = 2
    /\ resp.op = "move" /\ resp.status = 200
    /\ Len(games[TheGame].players[1].hits) = 1
    /\ Len(games[TheGame].players[2].misses) = 1

NoRepeat(seq) == \A i, j \in 1..Len(seq) : seq[i] = seq[j] => i = j

\* C10: re-firing at a coordinate already fired at against the same opponent
\* does not change the record: a coordinate occurs at most once in the hits
\* and misses recorded against a player.
C10_NoDuplicateShots ==
    Started =>
        \A i \in 1..Len(games[TheGame].players) :
            NoRepeat(games[TheGame].players[i].hits
                     \o games[TheGame].players[i].misses)

\* The cells the texts of a list of recorded shots name.
CellsOf(shots) ==
    { << ParseCoord(shots[i]).row, ParseCoord(shots[i]).col >> :
        i \in 1..Len(shots) }

\* C11: firing at a coordinate already fired at against the same opponent is
\* classified as the earlier shot was: a hit if the cell is among the hits
\* recorded against the opponent, a miss if it is among the misses, whatever
\* moves happened in between.
C11_SameClassification ==
    [][Accepted =>
         \A c \in FireCoords :
            FireStep(caller', c) =>
               LET before == OtherSlot(games[TheGame], caller')
                   cell == << ParseCoord(c).row, ParseCoord(c).col >>
               IN  /\ cell \in CellsOf(before.hits) => resp'.hit
                   /\ cell \in CellsOf(before.misses) => ~resp'.hit]_vars

\* The first joiner has fired twice at one ship cell of the opponent, with
\* a shot of the opponent in between, and the second shot is answered.
C11_Witness ==
    /\ Started
    /\ Len(games[TheGame].players) = 2
    /\ resp.op = "move" /\ resp.status = 200 /\ resp.hit
    /\ Len(games[TheGame].players[2].hits) = 2
    /\ Cardinality(CellsOf(games[TheGame].players[2].hits)) = 1
    /\ Shots(games[TheGame]) = 3

\* A step that handles the move request (token, coord) of the game in the
\* request-surface specification.
MoveStep(token, coord) == MoveRequest(TheGame, token, coord)

\* The step was a join or a move answered with an error.
Failed == resp'.op \in {"join", "move"} /\ resp'.status /= 200

\* C12: every join or move that ends in an error (game full, unknown token,
\* not your turn, no opponent, invalid coordinate, missing token or coord,
\* unknown game) leaves every persisted game, its players, boards, hits,
\* misses, turn and winner, exactly as before the call.
C12_FailureLeavesGame ==
    [][Failed =>
         /\ resp'.status \in {400, 403, 404}
         /\ resp'.error /= Null
         /\ resp'.token = Null /\ resp'.result = Null
         /\ games' = games]_vars

\* A move of the turn holder was refused for its coordinate after a shot
\* had been recorded.
C12_Witness ==
    /\ Started
    /\ resp.op = "move" /\ resp.error = "Coordinate out of bounds"
    /\ caller = games[TheGame].turn
    /\ Shots(games[TheGame]) >= 1

\* The token names a slot of the game.
IsPlayer(g, token) == \E i \in 1..Len(g.players) : g.players[i].token = token

\* C13: a fire that presents a token which is not a player of the addressed
\* game fails with "Invalid token for this game" (403) whether the game has
\* no, one or two players, and the persisted game is unchanged.
C13_UnknownToken ==
    [][(/\ resp'.op = "move"
        /\ Started
        /\ caller' /= ""
        /\ ~IsPlayer(games[TheGame], caller')) =>
            \A c \in RequestCoords \ {<< >>} :
               MoveStep(caller', c) =>
                  /\ resp'.status = 403
                  /\ resp'.error = "Invalid token for this game"
                  /\ resp'.result = Null
                  /\ games' = games]_vars

\* A token no join of the game returned was refused in a two-player game in
\* which a shot is recorded.
C13_Witness ==
    /\ Started
    /\ Len(games[TheGame].players) = 2
    /\ Shots(games[TheGame]) >= 1
    /\ resp.op = "move" /\ resp.status = 403
    /\ caller \in Tokens /\ ~IsPlayer(games[TheGame], caller)

IsLetter(ch) == IndexOf(UpperLetters, ch) > 0 \/ IndexOf(LowerLetters, ch) > 0

\* The text is a letter followed by an integer.
LetterInteger(c) ==
    Len(c) >= 2 /\ IsLetter(c[1]) /\ ParseInt(Tail(c)).ok

\* The text names a cell of the board: its letter is one of the first
\* BOARD_SIZE letters, in either case, and its number is in 1..BOARD_SIZE.
NamesCell(c) ==
    /\ LetterInteger(c)
    /\ IndexOf(UpperLetters, UpperChar(c[1])) <= BOARD_SIZE
    /\ ParseInt(Tail(c)).val >= 1
    /\ ParseInt(Tail(c)).val <= BOARD_SIZE

\* C14: a fire by the turn holder of a two-player game whose coordinate text
\* is not a letter followed by an integer, or whose letter is not a column
\* of the board, or whose number is 0, negative or greater than the board
\* size, is refused with a coordinate error (400); no shot is recorded and
\* the turn does not advance.
C14_InvalidCoordinate ==
    [][(/\ resp'.op = "move"
        /\ Started
        /\ Len(games[TheGame].players) = 2
        /\ caller' = games[TheGame].turn) =>
            \A c \in RequestCoords :
               (~NamesCell(c) /\ MoveStep(caller', c)) =>
                  /\ resp'.status = 400
                  /\ resp'.error \in
                       IF c = << >> THEN {"Missing token or coord"}
                       ELSE {"Coordinate format invalid (expected LetterNumber, e.g. B5)",
                             "Coordinate out of bounds"}
                  /\ resp'.result = Null
                  /\ games' = games]_vars

\* The turn holder's text without a number was refused after a shot had
\* been recorded.
C14_Witness ==
    /\ Started
    /\ Len(games[TheGame].players) = 2
    /\ Shots(games[TheGame]) >= 1
    /\ caller = games[TheGame].turn
    /\ resp.op = "move"
    /\ resp.error = "Coordinate format invalid (expected LetterNumber, e.g. B5)"

\* C15: while the game has one player, every fire by that player, who holds
\* the turn, fails with "Opponent has not joined the game yet" and leaves
\* the turn and the records as they were; a game with fewer than two
\* players has no shot recorded.
C15_NoOpponent ==
    /\ [][(/\ resp'.op = "move"
           /\ Started
           /\ Len(games[TheGame].players) = 1
           /\ caller' = games[TheGame].players[1].token) =>
               /\ games[TheGame].turn = caller'
               /\ \A c \in RequestCoords \ {<< >>} :
                     MoveStep(caller', c) =>
                        /\ resp'.status = 400
                        /\ resp'.error = "Opponent has not joined the game yet"
                        /\ resp'.result = Null
                        /\ games' = games]_vars
    /\ [](Started /\ Len(games[TheGame].players) < 2 =>
            Shots(games[TheGame]) = 0)

\* The only player of the game has fired and was told that the opponent has
\* not joined.
C15_Witness ==
    /\ Started
    /\ Len(games[TheGame].players) = 1
    /\ caller = games[TheGame].players[1].token
    /\ games[TheGame].turn = caller
    /\ resp.op = "move"
    /\ resp.error = "Opponent has not joined the game yet"

\* C16: a get-state response carries a board exactly when the supplied token
\* is a player of the game, and then it is the board of that player; without
\* a token, or with a token that is no player, private_board is null; the
\* public part of the response carries hits and misses only.
C16_OwnBoardOnly ==
    (resp.op = "state" /\ Started) =>
        /\ resp.status /= 200 => resp.private_board = NoBoard
        /\ (resp.status = 200 /\ resp.id = TheGame) =>
              /\ resp.private_board =
                    IF IsPlayer(games[TheGame], caller)
                    THEN Slot(games[TheGame], caller).board ELSE NoBoard
              /\ \A i \in 1..Len(games[TheGame].players) :
                    games[TheGame].players[i].token /= caller =>
                       resp.private_board /= games[TheGame].players[i].board
              /\ \A i \in 1..Len(resp.players) :
                    DOMAIN resp.players[i] = {"token", "hits", "misses"}

\* The second joiner has asked for the state after a shot and received a
\* board.
C16_Witness ==
    /\ Started
    /\ Len(games[TheGame].players) = 2
    /\ Shots(games[TheGame]) >= 1
    /\ resp.op = "state" /\ resp.status = 200
    /\ caller = games[TheGame].players[2].token
    /\ resp.private_board = games[TheGame].players[2].board

\* The tokens a state response carries: the keys of players and sunk_ships,
\* turn and winner.
TokensIn(r) ==
    { r.players[i].token : i \in 1..Len(r.players) }
    \cup { r.sunk_ships[i].token : i \in 1..Len(r.sunk_ships) }
    \cup ({r.turn, r.winner} \ {Null})

\* C17: a player cannot obtain the opponent's board with what the server has
\* given that player: no token a state response carries, other than the one
\* the request presented, is a credential that makes get-state return a
\* board.
C17_NoBoardCredential ==
    (Started /\ resp.op = "state" /\ resp.status = 200 /\ resp.id = TheGame)
        => \A u \in TokensIn(resp) \ {caller} :
              private_board(games[TheGame], u) = NoBoard

\* The ship types of the fleet all of whose cells on the slot's board are
\* among the hits recorded against the slot.
SunkTypes(slot) ==
    { SHIP_SIZES[k][1] : k \in
        { j \in 1..Len(SHIP_SIZES) :
            TypeCoords(slot.board, SHIP_SIZES[j][1]) \subseteq HitSet(slot) } }

\* C18: in every get-state response of a two-player game, sunk_ships[t] is
\* exactly the set of ship types on the board of t's opponent all of whose
\* cells are in the hits recorded against the opponent.
C18_SunkShipsOfOpponent ==
    (/\ Started
     /\ resp.op = "state" /\ resp.status = 200 /\ resp.id = TheGame
     /\ Len(games[TheGame].players) = 2) =>
        /\ Len(resp.sunk_ships) = 2
        /\ \A i \in 1..Len(resp.sunk_ships) :
              { resp.sunk_ships[i].ships[k] :
                  k \in 1..Len(resp.sunk_ships[i].ships) }
              = SunkTypes(OtherSlot(games[TheGame], resp.sunk_ships[i].token))

\* The canonical spelling: an upper-case letter followed by the decimal
\* digits of a number, without blank, sign or leading zero.
IsCanonical(s) ==
    /\ Len(s) >= 2
    /\ IndexOf(UpperLetters, s[1]) > 0
    /\ \A i \in 2..Len(s) : IndexOf(DigitChars, s[i]) > 0
    /\ s[2] /= "0"

\* Every cell of the board, converted to text, is accepted as fire parses
\* it and gives the cell back.
CellRoundTrip ==
    conv.from = "cell" =>
        /\ conv.step /= -1
        /\ conv.step = 2 => conv.back_cell = conv.cell

\* C19 as stated: coordinate conversion is a bijection between texts and
\* cells; every in-bounds cell converted to text and parsed as fire does
\* gives the cell back, and every text fire accepts, parsed and converted
\* back, gives the same text.
C19_Bijection ==
    /\ CellRoundTrip
    /\ (conv.from = "text" /\ conv.step = 2) => conv.back_text = conv.text

\* C19, amended: every in-bounds cell converted to text and parsed as fire
\* does gives the cell back; a text fire accepts, parsed and converted back,
\* gives the canonical spelling of the same cell, which is the text itself
\* exactly when the text is canonical.
C19_CanonicalRoundTrip ==
    /\ CellRoundTrip
    /\ (conv.from = "text" /\ conv.step = 2) =>
          /\ IsCanonical(conv.back_text)
          /\ Accepts(conv.back_text)
          /\ << ParseCoord(conv.back_text).row,
                ParseCoord(conv.back_text).col >> = conv.cell
          /\ (conv.back_text = conv.text) <=> IsCanonical(conv.text)

\* A lower-case text with a leading zero was accepted and came back in the
\* canonical spelling of its cell.
C19_Witness ==
    /\ conv.from = "text" /\ conv.step = 2
    /\ conv.text = << "b", "0", "2" >>
    /\ conv.cell = << 1, 1 >>
    /\ conv.back_text = << "B", "2" >>

\* C20: a newly created game has no players, a null turn and a null winner;
\* the first successful join sets turn to the token it returns, the second
\* leaves turn as it is, so the first joiner holds the turn when the game
\* has its two players and no shot is recorded yet.
C20_FirstJoinerHoldsTurn ==
    /\ [][(~Started /\ Started') =>
            /\ resp'.op = "start" /\ resp'.status = 201
            /\ games'[TheGame] =
                  [players |-> << >>, turn |-> Null, winner |-> Null]]_vars
    /\ [][(Started /\ resp'.op = "join" /\ resp'.status = 200) =>
            LET g == games[TheGame]
                h == games'[TheGame]
            IN  /\ Len(h.players) = Len(g.players) + 1
                /\ h.players[Len(h.players)].token = resp'.token
                /\ h.winner = Null
                /\ Len(g.players) = 0 =>
                      g.turn = Null /\ h.turn = resp'.token
                /\ Len(g.players) = 1 =>
                      h.turn = g.turn /\ h.turn = g.players[1].token]_vars
    /\ [](Started /\ Len(games[TheGame].players) = 2
             /\ Shots(games[TheGame]) = 0 =>
            games[TheGame].turn = games[TheGame].players[1].token)

\* The second join has returned its token and the turn is the first
\* joiner's.
C20_Witness ==
    /\ Started
    /\ Len(games[TheGame].players) = 2
    /\ resp.op = "join" /\ resp.status = 200
    /\ resp.token = games[TheGame].players[2].token
    /\ games[TheGame].turn = games[TheGame].players[1].token
    /\ games[TheGame].turn /= resp.token

\* The response is the 404 of a game that is not on disk.
IsNotFound(r) == r.status = 404 /\ r.error = "Game not found"

\* C21: a join, a get-state or a fire addressed to a game id that was never
\* created fails with "Game not found" (404) and creates no game: the set
\* of persisted games, and every game in it, is unchanged.
C21_UnknownGame ==
    [][\A game_id \in RequestIds \ DOMAIN games :
          /\ JoinRequest(game_id) =>
                IsNotFound(resp') /\ resp'.token = Null /\ games' = games
          /\ resp'.op = "state" =>
                \A token \in RequestTokens :
                   StateRequest(game_id, token) =>
                      /\ IsNotFound(resp') /\ games' = games
                      /\ resp'.private_board = NoBoard
          /\ resp'.op = "move" =>
                \A coord \in RequestCoords \ {<< >>} :
                   (caller' /= "" /\ MoveRequest(game_id, caller', coord)) =>
                      /\ IsNotFound(resp') /\ games' = games
                      /\ resp'.result = Null]_vars

\* A fire addressed to an id that was never created was answered 404 while
\* another game with a recorded shot is on disk.
C21_Witness ==
    /\ Started
    /\ DOMAIN games = {TheGame}
    /\ Shots(games[TheGame]) >= 1
    /\ resp.op = "move" /\ IsNotFound(resp)
    /\ caller = games[TheGame].turn

\* The step is the answer of a worker.
Answer == \E k \in DOMAIN flight : k \notin DOMAIN flight'

\* C22: load-modify-save is serialized per game: when fire requests of the
\* turn holder overlap, a fire is accepted only while its sender holds the
\* turn in the persisted game, and every accepted fire adds its shot to the
\* shots recorded in the persisted game.
C22_Serialized ==
    [][(Answer /\ Accepted) =>
         /\ games[TheGame].turn = caller'
         /\ Shots(games'[TheGame]) = Shots(games[TheGame]) + 1]_vars


\* C23: a join makes at most a bounded number of sampling attempts: no join
\* is still placing ships after more than RetryBound rejected samples (it
\* would have failed with PlacementImpossible and left the game unchanged).
C23_BoundedAttempts ==
    \A k \in DOMAIN flight :
        flight[k].op = "join" => flight[k].rejected <= RetryBound

\* The join in flight has a ship left and some sample of it is accepted.
Placeable(f) ==
    \E cells \in Candidates(SHIP_SIZES[f.ship][2]) :
        ~Rejected(f.board, f.blocked, cells)

Placing(k) ==
    /\ k \in DOMAIN flight
    /\ flight[k].op = "join"
    /\ flight[k].ship <= Len(SHIP_SIZES)

\* C24: whatever fleet the first joiner holds and whatever positions the
\* earlier ships of this join took, some position of the next ship is
\* accepted; and under fair sampling every join in flight is answered.
C24_PlacementTerminates ==
    /\ [](\A k \in DOMAIN flight : Placing(k) => Placeable(flight[k]))
    /\ (flight /= << >>) ~> (flight = << >>)

C24_Witness ==
    /\ flight = << >>
    /\ Exists(TheGame)
    /\ Len(games[TheGame].players) = 2
    /\ resp.op = "join"
    /\ resp.status = 200


\* The successful fires of the i-th joiner: the shots recorded against the
\* other player.
FiresBy(g, i) ==
    IF Len(g.players) < 2 THEN 0
    ELSE Len(g.players[3 - i].hits) + Len(g.players[3 - i].misses)

\* C25: the successful fires alternate, the first joiner first: a fire of
\* the first joiner is accepted only when both players have fired equally
\* often, a fire of the second joiner only when the first joiner is one
\* fire ahead, and the accepted fire counts for its actor.
C25_Alternation ==
    [][Accepted =>
         LET g == games[TheGame] IN
         /\ Len(g.players) = 2
         /\ caller' \in TokensOf(g)
         /\ LET i == SlotIndex(g, caller') IN
            /\ FiresBy(g, 1) - FiresBy(g, 2) = (IF i = 1 THEN 0 ELSE 1)
            /\ FiresBy(games'[TheGame], i) = FiresBy(g, i) + 1
            /\ FiresBy(games'[TheGame], 3 - i) = FiresBy(g, 3 - i)]_vars

\* The first joiner has fired, then the second, then the first again.
C25_Witness ==
    /\ Started
    /\ Len(games[TheGame].players) = 2
    /\ resp.op = "move" /\ resp.status = 200
    /\ caller = games[TheGame].players[1].token
    /\ FiresBy(games[TheGame], 1) = 2
    /\ FiresBy(games[TheGame], 2) = 1


\* C26: a fire that carries a token and a coordinate and addresses the game
\* (it is not answered not-found) reports the first failure that applies, in
\* the order unknown token, not your turn, no opponent, invalid coordinate,
\* whatever the later conditions are; it is accepted only when none applies.
C26_FailureOrder ==
    [][(/\ resp'.op = "move"
        /\ resp'.status /= 404
        /\ Started
        /\ caller' /= "") =>
         \A c \in RequestCoords \ {<< >>} :
            MoveStep(caller', c) =>
               LET g == games[TheGame] IN
               IF ~IsPlayer(g, caller')
               THEN /\ resp'.status = 403
                    /\ resp'.error = "Invalid token for this game"
               ELSE IF g.turn /= caller'
               THEN /\ resp'.status = 400
                    /\ resp'.error = "Not your turn"
               ELSE IF Len(g.players) < 2
               THEN /\ resp'.status = 400
                    /\ resp'.error = "Opponent has not joined the game yet"
               ELSE IF ~NamesCell(c)
               THEN /\ resp'.status = 400
                    /\ resp'.error \in
                         {"Coordinate format invalid (expected LetterNumber, e.g. B5)",
                          "Coordinate out of bounds"}
               ELSE resp'.status = 200]_vars

\* The player who does not hold the turn was told so in a two-player game
\* without a shot: each of the coordinates tried, valid or not, was answered
\* the same.
C26_Witness ==
    /\ Started
    /\ Len(games[TheGame].players) = 2
    /\ Shots(games[TheGame]) = 0
    /\ IsPlayer(games[TheGame], caller)
    /\ caller /= games[TheGame].turn
    /\ resp.op = "move" /\ resp.status = 400
    /\ resp.error = "Not your turn"


\* C27: a get-state of an existing game succeeds whether the game has no,
\* one or two players: it returns the turn, the winner, every player's
\* hits and misses and, for a caller who is a player, that player's board.
C27_StateSucceeds ==
    (resp.op = "state" /\ Started /\ resp.status /= 404) =>
        LET g == games[TheGame] IN
        /\ resp.status = 200
        /\ resp.turn = g.turn
        /\ resp.winner = g.winner
        /\ Len(resp.players) = Len(g.players)
        /\ \A i \in 1..Len(g.players) :
              /\ resp.players[i].hits = g.players[i].hits
              /\ resp.players[i].misses = g.players[i].misses
        /\ IsPlayer(g, caller) => resp.private_board = Slot(g, caller).board


\* The entries recorded against the slot.
Entries(slot) ==
    { slot.hits[i] : i \in 1..Len(slot.hits) }
    \cup { slot.misses[i] : i \in 1..Len(slot.misses) }

\* C28: every entry of a hits or misses list is the canonical text of the
\* cell it denotes, the text _coord_from_rc gives for that cell, whatever
\* spelling the fire used.
C28_CanonicalEntries ==
    Started =>
        \A i \in 1..Len(games[TheGame].players) :
            \A e \in Entries(games[TheGame].players[i]) :
                /\ IsCanonical(e)
                /\ e = _coord_from_rc(ParseCoord(e).row, ParseCoord(e).col)


\* C29: turn is null exactly when the game has no players, and otherwise it
\* is the token of a player of the game; once a player has joined, turn is
\* never null again.
C29_TurnDefined ==
    /\ [](Started =>
            /\ (games[TheGame].turn = Null) <=> (Len(games[TheGame].players) = 0)
            /\ games[TheGame].turn /= Null =>
                  IsPlayer(games[TheGame], games[TheGame].turn))
    /\ [][(Started /\ games[TheGame].turn /= Null) =>
             games'[TheGame].turn /= Null]_vars

\* Three fires have been accepted and the turn is with the second joiner.
C29_Witness ==
    /\ Started
    /\ Len(games[TheGame].players) = 2
    /\ Shots(games[TheGame]) = 3
    /\ games[TheGame].turn = games[TheGame].players[2].token
    /\ resp.op = "move" /\ resp.status = 200


\* The cell the stored text denotes is on the board.
DenotesCell(e) ==
    /\ Len(e) >= 2
    /\ ParseCoord(e).ok
    /\ InBounds(ParseCoord(e).row, ParseCoord(e).col)

\* The content of the cell of the slot's board the stored text denotes.
CellAt(slot, e) == Cell(slot.board, ParseCoord(e).row, ParseCoord(e).col)

\* C30: for each player, every hit recorded against the player denotes a
\* cell of the player's board that holds a ship, every miss a cell of it
\* that is empty, and so no cell is among both the hits and the misses.
C30_RecordsMatchBoard ==
    Started =>
        \A i \in 1..Len(games[TheGame].players) :
            LET slot == games[TheGame].players[i] IN
            /\ \A h \in 1..Len(slot.hits) :
                  /\ DenotesCell(slot.hits[h])
                  /\ CellAt(slot, slot.hits[h]) /= "~"
            /\ \A m \in 1..Len(slot.misses) :
                  /\ DenotesCell(slot.misses[m])
                  /\ CellAt(slot, slot.misses[m]) = "~"
            /\ \A h \in 1..Len(slot.hits), m \in 1..Len(slot.misses) :
                  << ParseCoord(slot.hits[h]).row, ParseCoord(slot.hits[h]).col >>
                     /= << ParseCoord(slot.misses[m]).row,
                           ParseCoord(slot.misses[m]).col >>

\* A hit and a miss are recorded against the second joiner.
C30_Witness ==
    /\ Started
    /\ Len(games[TheGame].players) = 2
    /\ Len(games[TheGame].players[2].hits) >= 1
    /\ Len(games[TheGame].players[2].misses) >= 1


\* C31: a player's slot keeps its token and its board, cell for cell, in
\* every step after the join that created it: the other join, accepted and
\* refused fires and state requests leave it as placed.
C31_BoardsFixed ==
    [][Started =>
         /\ TheGame \in DOMAIN games'
         /\ Len(games'[TheGame].players) >= Len(games[TheGame].players)
         /\ \A i \in 1..Len(games[TheGame].players) :
               /\ games'[TheGame].players[i].token
                     = games[TheGame].players[i].token
               /\ games'[TheGame].players[i].board
                     = games[TheGame].players[i].board]_vars

\* The state was read after a hit and a miss against the two boards; the
\* cell that was hit still holds its ship.
C31_Witness ==
    /\ Started
    /\ Len(games[TheGame].players) = 2
    /\ resp.op = "state" /\ resp.status = 200
    /\ Len(games[TheGame].players[2].hits) = 1
    /\ Len(games[TheGame].players[1].misses) = 1
    /\ CellAt(games[TheGame].players[2], games[TheGame].players[2].hits[1]) /= "~"


\* C33: when joins of one game overlap, every join answered with a token
\* leaves that token a player of the persisted game, keeps every player the
\* persisted game had (no earlier join is overwritten), and the persisted
\* game never has more than two players.
C33_NoJoinLost ==
    [][(Answer /\ resp'.op = "join" /\ resp'.status = 200) =>
         /\ resp'.token \in TokensOf(games'[TheGame])
         /\ TokensOf(games[TheGame]) \subseteq TokensOf(games'[TheGame])
         /\ Len(games'[TheGame].players) <= 2]_vars


\* The command of this step sent a move request.
MoveSent == \E i \in 1..Len(cli'.requests) : cli'.requests[i] = "move"

\* The stored token holds the turn of the stored game.
StoredTurn ==
    /\ _load_token.ok
    /\ Exists(_load_token.game_id)
    /\ games[_load_token.game_id].turn = _load_token.token

\* C34: a fire command sends a move request only when the game it has just
\* read gives the turn to the stored token; with no stored token, or with
\* the turn at the opponent, it sends no move request, and a command that
\* sends none leaves the games and the stored token as they were.
C34_FireOnlyOnTurn ==
    [][\A arg \in ClientCoords :
         cmd_fire(arg) =>
            /\ cli'.cmd = "fire"
            /\ MoveSent => StoredTurn
            /\ ~StoredTurn => ~MoveSent
            /\ ~_load_token.ok => cli'.requests = << >>
            /\ ~MoveSent => (games' = games /\ TOKEN_FILE' = TOKEN_FILE)]_vars

\* After a fire of its own, the client's next fire command found the turn at
\* the opponent and stopped after reading the state.
C34_Witness ==
    /\ cli.cmd = "fire"
    /\ cli.printed = "It's not your turn yet."
    /\ cli.requests = << "state" >>
    /\ _load_token.ok
    /\ Exists(_load_token.game_id)
    /\ Len(games[_load_token.game_id].players) = 2
    /\ Shots(games[_load_token.game_id]) >= 1
    /\ games[_load_token.game_id].turn /= _load_token.token


\* What _load_token returns for the stored pair (game_id, token).
Stored(game_id, token) == [ok |-> TRUE, game_id |-> game_id, token |-> token]

\* C35: after a start or join command has stored the game id and the token
\* the server returned, _load_token returns exactly that pair; a join that
\* fails stores nothing; after quit _load_token returns None; what
\* _load_token returns changes only by start, join and quit; and with
\* nothing stored, status and fire report that there is no active game and
\* send no request.
C35_TokenStorage ==
    /\ [][/\ cmd_start =>
               \E game_id \in DOMAIN games' \ DOMAIN games :
                  LoadToken(TOKEN_FILE') = Stored(game_id, resp'.token)
          /\ \A game_id \in RequestIds :
               cmd_join(game_id) =>
                  LoadToken(TOKEN_FILE') =
                     IF resp'.status = 200 THEN Stored(game_id, resp'.token)
                     ELSE LoadToken(TOKEN_FILE)
          /\ cmd_quit => LoadToken(TOKEN_FILE') = None]_vars
    /\ [][LoadToken(TOKEN_FILE') /= LoadToken(TOKEN_FILE) =>
            cmd_start \/ CmdJoin \/ cmd_quit]_vars
    /\ [][((cmd_status \/ CmdFire) /\ ~_load_token.ok) =>
            /\ cli'.requests = << >>
            /\ cli'.printed \in
                 {"No active game.",
                  "No active game. Use 'battleship start' or 'battleship join <id>'."}
            /\ games' = games
            /\ resp' = resp]_vars

\* The join command has stored the pair of the second joiner, and
\* _load_token returns it.
C35_Witness ==
    /\ cli.cmd = "join" /\ cli.exit = 0
    /\ Started
    /\ Len(games[TheGame].players) = 2
    /\ TOKEN_FILE.is_file
    /\ _load_token = Stored(TheGame, games[TheGame].players[2].token)

====
